---------------------------- MODULE Spec2Model ----------------------------
(***************************************************************************)
(* Crypto Surge Monitor (src/app.py, src/streamlit_app.py).                *)
(*                                                                         *)
(* One run of main() is one refresh cycle: fetch_prices, update_histories  *)
(* (only when the fetch returned a non-empty mapping), compute_predictions *)
(* and the ranking of the rows to display.  The only state that survives a *)
(* run is st.session_state.price_histories.                                *)
(*                                                                         *)
(* Time is counted in whole minutes.  Prices are integers; returns and     *)
(* projected gains are exact fractions <<num, den>> in lowest terms (the   *)
(* program uses binary floating point; the modelled values are far from    *)
(* the points where rounding changes a comparison).                        *)
(***************************************************************************)
EXTENDS Integers, Sequences, FiniteSets, TLC

VARIABLES
    variant,      \* which program runs: "app" (app.py) or "streamlit" (streamlit_app.py)
    histories,    \* st.session_state.price_histories: coin -> sequence of entries
    order,        \* key order of the price_histories dict (insertion order)
    clock,        \* the latest reading of datetime.utcnow(), in minutes
    cycles,       \* st.session_state.autorefresh: runs of main() so far
    upstream,     \* what the price API answered in the latest run
    prices,       \* the mapping fetch_prices returned in the latest run
    status,       \* how the latest run of main() ended
    predictions,  \* what compute_predictions returned in the latest run
    top,          \* the rows the latest run displayed
    calls         \* the latest two update_histories calls (mapping, lengths before)

vars == <<variant, histories, order, clock, cycles, upstream, prices, status,
          predictions, top, calls>>

---------------------------------------------------------------------------
(* Program constants *)

COINS == <<"bitcoin", "ethereum", "binancecoin", "ripple", "cardano",
           "solana", "dogecoin", "tron", "polkadot", "litecoin">>

CoinSet == {COINS[i] : i \in 1..Len(COINS)}

\* update_histories keeps the most recent 60 entries
HistoryCap == 60

\* the rows displayed: [:5] and head(5)
TopN == 5

\* the projected-gain threshold of the streamlit variant's filter, and the
\* centre of the logistic confidence
SurgeThreshold == 5

\* math.exp(x) raises OverflowError for x > 709.78...; no modelled argument
\* lies between 709 and 710
ExpOverflowArg == 710

\* 1.0 + exp(-x) rounds to 1.0 for x >= 37 (exp(-37) < 2^-53); no modelled
\* argument lies between 36 and 37
ExpVanishArg == 37

---------------------------------------------------------------------------
(* Bounds of the model *)

\* runs of main() explored from an initial store
MaxCycles == 2

\* the prices the API quotes (0: a degenerate quote)
Prices == {0, 100, 105}

\* minutes between two runs of main()
Steps == {0, 1, 2}

\* the coins an upstream payload may mention (the others are absent from it)
Quoted == {"bitcoin", "ethereum"}

---------------------------------------------------------------------------
(* Helpers *)

Min(a, b) == IF a <= b THEN a ELSE b

Abs(a) == IF a < 0 THEN -a ELSE a

RECURSIVE GCD(_, _)
GCD(a, b) == IF b = 0 THEN a ELSE GCD(b, a % b)

\* the fraction n/d (d > 0) in lowest terms
Frac(n, d) ==
    LET g == GCD(Abs(n), d)
    IN  IF n = 0 THEN <<0, 1>> ELSE <<n \div g, d \div g>>

FracLess(x, y) == x[1] * y[2] < y[1] * x[2]

FracLeq(x, y) == x[1] * y[2] <= y[1] * x[2]

\* x + k * y for fractions x, y and an integer k
FracAddMul(x, k, y) == Frac(x[1] * y[2] + k * y[1] * x[2], x[2] * y[2])

EmptyMap == [c \in {} |-> 0]

---------------------------------------------------------------------------
(* The upstream answer.  A response is a transport error, an error status, *)
(* a body that is not JSON, or a JSON value.  A JSON object maps some of   *)
(* the coins to a value ("info"); an info that is an object may carry the  *)
(* fields usd and last_updated_at.                                         *)

\* a field of an info object: absent (or null), a number, or a string
NoField == [k |-> "none", v |-> 0]

NumField(n) == [k |-> "num", v |-> n]

StrField == [k |-> "str", v |-> 0]

\* data.get(coin) for a key the payload does not hold: None
Absent == [t |-> "absent", n |-> 0, usd |-> NoField, ts |-> NoField]

NullInfo == [t |-> "null", n |-> 0, usd |-> NoField, ts |-> NoField]

NumberInfo(n) == [t |-> "number", n |-> n, usd |-> NoField, ts |-> NoField]

ObjectInfo(usd, ts) == [t |-> "object", n |-> 0, usd |-> usd, ts |-> ts]

\* Python truth value of an info: None, 0 and {} are false
Truthy(info) ==
    CASE info.t = "absent" -> FALSE
      [] info.t = "null"   -> FALSE
      [] info.t = "number" -> info.n # 0
      [] info.t = "object" -> info.usd.k # "none" \/ info.ts.k # "none"

\* info.get(...) is None: the field is absent (or null)
IsNone(field) == field.k = "none"

\* datetime.utcfromtimestamp(x) raises TypeError unless x is a number
utcfromtimestamp_raises(field) == field.k # "num"

\* data.get(coin) on a JSON object
DataGet(data, coin) ==
    IF coin \in DOMAIN data.items THEN data.items[coin] ELSE Absent

\* one iteration of the loop of fetch_prices: "skip" (continue), "raise",
\* or "quote" (prices[coin] is set)
fetch_step(data, coin) ==
    LET info == DataGet(data, coin)
    IN  IF ~Truthy(info) THEN "skip"
        ELSE IF info.t # "object" THEN "raise"
        ELSE IF IsNone(info.usd) \/ IsNone(info.ts) THEN "skip"
        ELSE IF utcfromtimestamp_raises(info.ts) THEN "raise"
        ELSE "quote"

fetch_quote(data, coin) ==
    [price |-> DataGet(data, coin).usd.v, updated_at |-> DataGet(data, coin).ts.v]

\* fetch_prices(): the mapping returned, or raised = TRUE when an exception
\* leaves the function.  Only requests.get, raise_for_status and json() are
\* inside the try block.
fetch_prices(resp) ==
    IF resp.kind # "json"
    THEN [raised |-> FALSE, prices |-> EmptyMap]
    ELSE IF resp.data.t # "object"
    THEN [raised |-> TRUE, prices |-> EmptyMap]
    ELSE IF \E c \in CoinSet : fetch_step(resp.data, c) = "raise"
    THEN [raised |-> TRUE, prices |-> EmptyMap]
    ELSE [raised |-> FALSE,
          prices |-> [c \in {d \in CoinSet : fetch_step(resp.data, d) = "quote"}
                        |-> fetch_quote(resp.data, c)]]

---------------------------------------------------------------------------
(* The History Store *)

Entry(now, price) == [time |-> now, price |-> price]

\* history[-60:]
LastN(history, n) ==
    IF Len(history) > n
    THEN SubSeq(history, Len(history) - n + 1, Len(history))
    ELSE history

\* faulty variants of append_entry: no truncation; the newest entry dropped
\* instead of the oldest; a repeated price not appended
append_entry_NoTruncate(history, entry) == Append(history, entry)

append_entry_DropNewest(history, entry) ==
    IF Len(history) + 1 > HistoryCap
    THEN SubSeq(Append(history, entry), 1, HistoryCap)
    ELSE Append(history, entry)

append_entry_Dedup(history, entry) ==
    IF Len(history) > 0 /\ history[Len(history)].price = entry.price
    THEN history
    ELSE LastN(Append(history, entry), HistoryCap)

\* histories.setdefault(coin, []).append(entry), then the truncation
append_entry(history, entry) ==
    IF Len(Append(history, entry)) > HistoryCap
    THEN LastN(Append(history, entry), HistoryCap)
    ELSE Append(history, entry)

HistoryOf(hs, coin) == IF coin \in DOMAIN hs THEN hs[coin] ELSE <<>>

\* faulty variant of update_histories: the histories of the coins that are
\* not in the mapping are emptied
update_histories_EmptiesOthers(quotes, hs, now) ==
    [c \in DOMAIN hs \cup DOMAIN quotes |->
        IF c \in DOMAIN quotes
        THEN append_entry(HistoryOf(hs, c), Entry(now, quotes[c].price))
        ELSE <<>>]

\* update_histories(prices, histories) with now = datetime.utcnow()
update_histories(quotes, hs, now) ==
    [c \in DOMAIN hs \cup DOMAIN quotes |->
        IF c \in DOMAIN quotes
        THEN append_entry(HistoryOf(hs, c), Entry(now, quotes[c].price))
        ELSE hs[c]]

\* the coins of a set in the order of COINS
RECURSIVE InCoinsOrder(_, _)
InCoinsOrder(S, i) ==
    IF i > Len(COINS) THEN <<>>
    ELSE (IF COINS[i] \in S THEN <<COINS[i]>> ELSE <<>>) \o InCoinsOrder(S, i + 1)

\* key order of the dict after update_histories: new keys are added in the
\* order of the prices dict, which fetch_prices fills in the order of COINS
update_order(quotes, keys) ==
    keys \o InCoinsOrder(DOMAIN quotes \ {keys[i] : i \in 1..Len(keys)}, 1)

---------------------------------------------------------------------------
(* The Projection Engine *)

\* the index of the first entry, scanning from the oldest, whose time is at
\* or before the cutoff; 0 when there is none
old_index(history, cutoff) ==
    IF \E i \in 1..Len(history) : history[i].time <= cutoff
    THEN CHOOSE i \in 1..Len(history) :
            /\ history[i].time <= cutoff
            /\ \A j \in 1..(i - 1) : history[j].time > cutoff
    ELSE 0

\* pct_change_over(minutes), with cutoff = now - minutes: the return over
\* the window as a fraction, 0 when no entry is old enough or the old price
\* is not positive
pct_change_over(history, current_price, cutoff) ==
    LET i == old_index(history, cutoff)
    IN  IF i = 0 THEN <<0, 1>>
        ELSE IF history[i].price > 0
        THEN Frac(current_price - history[i].price, history[i].price)
        ELSE <<0, 1>>

\* (0.5 * r1 * (30/1) + 0.3 * r5 * (30/5) + 0.2 * r15 * (30/15)) * 100.0
\*   = 1500 * r1 + 180 * r5 + 40 * r15
projected_gain_pct(r1, r5, r15) ==
    Frac(1500 * r1[1] * r5[2] * r15[2] + 180 * r5[1] * r1[2] * r15[2]
            + 40 * r15[1] * r1[2] * r5[2],
         r1[2] * r5[2] * r15[2])

\* math.exp(-(gain - 5.0)) raises OverflowError (app.py); numpy's exp
\* returns inf instead (streamlit_app.py)
exp_overflows(gain) == FracLeq(gain, <<SurgeThreshold - ExpOverflowArg, 1>>)

\* 1.0 / (1.0 + exp(-(gain - 5.0))).  The value is kept as the pair
\* <<class, gain>>: class 1 is exactly 1.0 (the exponential vanishes in the
\* sum), class -1 is exactly 0.0 (the exponential is inf), class 0 is a
\* value strictly between them that grows with the gain.
confidence_of(gain) ==
    IF FracLeq(<<SurgeThreshold + ExpVanishArg, 1>>, gain) THEN <<1, <<0, 1>>>>
    ELSE IF exp_overflows(gain) THEN <<-1, <<0, 1>>>>
    ELSE <<0, gain>>

ConfLess(a, b) == a[1] < b[1] \/ (a[1] = b[1] /\ FracLess(a[2], b[2]))

IsSortedByTime(history) ==
    \A i \in 1..(Len(history) - 1) : history[i].time <= history[i + 1].time

RECURSIVE InsertByTime(_, _)
InsertByTime(sorted, e) ==
    IF sorted = <<>> THEN <<e>>
    ELSE IF sorted[Len(sorted)].time <= e.time THEN Append(sorted, e)
    ELSE Append(InsertByTime(SubSeq(sorted, 1, Len(sorted) - 1), e),
                sorted[Len(sorted)])

RECURSIVE InsertionSortByTime(_, _)
InsertionSortByTime(history, n) ==
    IF n = 0 THEN <<>>
    ELSE InsertByTime(InsertionSortByTime(history, n - 1), history[n])

\* df.sort_values("time"): ascending, entries of equal time in their order
\* of insertion (a sorted history is returned as it is)
sort_values_time(history) ==
    IF IsSortedByTime(history) THEN history
    ELSE InsertionSortByTime(history, Len(history))

\* the three returns and the projection of one coin; now is the time the
\* cutoffs are taken from
projection(coin, history, now) ==
    LET current_price == history[Len(history)].price
        r1  == pct_change_over(history, current_price, now - 1)
        r5  == pct_change_over(history, current_price, now - 5)
        r15 == pct_change_over(history, current_price, now - 15)
        gain == projected_gain_pct(r1, r5, r15)
    IN  [coin |-> coin, projected_gain |-> gain, confidence |-> confidence_of(gain)]

\* app.py: now = datetime.utcnow()
projection_app(coin, history, now) == projection(coin, history, now)

\* streamlit_app.py: the frame sorted by time, now = df["time"].iloc[-1]
projection_streamlit(coin, history) ==
    LET df == sort_values_time(history)
    IN  projection(coin, df, df[Len(df)].time)

\* the negation of "if len(history) < 2: continue"
enough_history(history) == Len(history) >= 2

\* the coins of the dict, in key order, that get a projection
RECURSIVE projected_coins(_, _, _)
projected_coins(hs, keys, i) ==
    IF i > Len(keys) THEN <<>>
    ELSE (IF enough_history(hs[keys[i]]) THEN <<keys[i]>> ELSE <<>>)
            \o projected_coins(hs, keys, i + 1)

\* compute_predictions(histories): the rows in the key order of the dict, or
\* raised = TRUE when math.exp overflows (app.py only)
compute_predictions(which, hs, keys, now) ==
    LET coins == projected_coins(hs, keys, 1)
        rows  == [i \in 1..Len(coins) |->
                    IF which = "app"
                    THEN projection_app(coins[i], hs[coins[i]], now)
                    ELSE projection_streamlit(coins[i], hs[coins[i]])]
    IN  IF which = "app" /\ \E i \in 1..Len(rows) : exp_overflows(rows[i].projected_gain)
        THEN [raised |-> TRUE, rows |-> <<>>]
        ELSE [raised |-> FALSE, rows |-> rows]

---------------------------------------------------------------------------
(* The ranking of the rows to display *)

\* whether row a is placed before row b by the variant's sort key:
\* confidence descending (app.py), projected gain then confidence
\* descending (streamlit_app.py)
sorts_before(which, a, b) ==
    IF which = "app"
    THEN ConfLess(b.confidence, a.confidence)
    ELSE \/ FracLess(b.projected_gain, a.projected_gain)
         \/ /\ a.projected_gain = b.projected_gain
            /\ ConfLess(b.confidence, a.confidence)

\* a row put into a sorted sequence behind every row that does not sort
\* after it: rows of equal key keep their order (both sorts are stable)
RECURSIVE insert_row(_, _, _)
insert_row(which, sorted, row) ==
    IF sorted = <<>> THEN <<row>>
    ELSE IF ~sorts_before(which, row, sorted[Len(sorted)]) THEN Append(sorted, row)
    ELSE Append(insert_row(which, SubSeq(sorted, 1, Len(sorted) - 1), row),
                sorted[Len(sorted)])

RECURSIVE sort_rows(_, _, _)
sort_rows(which, rows, n) ==
    IF n = 0 THEN <<>>
    ELSE insert_row(which, sort_rows(which, rows, n - 1), rows[n])

\* rows[:5] and head(5)
head(rows, n) == SubSeq(rows, 1, Min(n, Len(rows)))

ClearsThreshold(row) == FracLeq(<<SurgeThreshold, 1>>, row.projected_gain)

\* faulty variant of top_rows: no fallback to all rows when fewer than five
\* clear the threshold
top_rows_NoFallback(which, rows) ==
    IF which = "app"
    THEN head(sort_rows(which, rows, Len(rows)), TopN)
    ELSE LET above == SelectSeq(rows, ClearsThreshold)
         IN  head(sort_rows(which, above, Len(above)), TopN)

\* the rows main() displays when compute_predictions returned rows
top_rows(which, rows) ==
    IF which = "app"
    THEN head(sort_rows(which, rows, Len(rows)), TopN)
    ELSE LET above == SelectSeq(rows, ClearsThreshold)
             top_candidates == head(sort_rows(which, above, Len(above)), TopN)
         IN  IF Len(top_candidates) < TopN
             THEN head(sort_rows(which, rows, Len(rows)), TopN)
             ELSE top_candidates

---------------------------------------------------------------------------
(* One run of main() *)

NoData == [t |-> "null", items |-> EmptyMap]

NoResponse == [kind |-> "none", data |-> NoData]

\* the record of one update_histories call: its mapping and the histories of
\* the mapping's coins before the call
CallRecord(quotes, hs) ==
    [quotes |-> quotes, before |-> [c \in DOMAIN quotes |-> HistoryOf(hs, c)]]

Remember(cs, call) == IF Len(cs) < 2 THEN Append(cs, call) ELSE <<cs[2], call>>

\* main(): resp is the upstream answer of this run, dt the minutes since the
\* previous reading of the clock.  The readings of utcnow() within one run
\* are microseconds apart: the same minute.
Main(resp, dt) ==
    LET now     == clock + dt
        fetched == fetch_prices(resp)
        updated == fetched.prices # EmptyMap
        hs      == IF updated
                   THEN update_histories(fetched.prices, histories, now)
                   ELSE histories
        keys    == IF updated THEN update_order(fetched.prices, order) ELSE order
        result  == compute_predictions(variant, hs, keys, now)
    IN  /\ cycles < MaxCycles
        /\ cycles' = cycles + 1
        /\ clock' = now
        /\ upstream' = resp
        /\ variant' = variant
        /\ IF fetched.raised
           THEN /\ status' = "fetch_raised"
                /\ prices' = EmptyMap
                /\ predictions' = <<>>
                /\ top' = <<>>
                /\ UNCHANGED <<histories, order, calls>>
           ELSE /\ prices' = fetched.prices
                /\ histories' = hs
                /\ order' = keys
                /\ calls' = IF updated
                            THEN Remember(calls, CallRecord(fetched.prices, histories))
                            ELSE calls
                /\ IF result.raised
                   THEN /\ status' = "compute_raised"
                        /\ predictions' = <<>>
                        /\ top' = <<>>
                   ELSE /\ status' = "ok"
                        /\ predictions' = result.rows
                        /\ top' = IF result.rows # <<>>
                                  THEN top_rows(variant, result.rows)
                                  ELSE <<>>

---------------------------------------------------------------------------
(* Upstream answers *)

\* a complete quote at price p; its last_updated_at is 0 (the entries do not
\* use it)
Complete(p) == ObjectInfo(NumField(p), NumField(0))

\* infos that lack a field, are not objects, or carry a timestamp that is
\* not a number
BrokenInfos ==
    { NullInfo, NumberInfo(0), NumberInfo(7),
      ObjectInfo(NoField, NoField),
      ObjectInfo(NoField, NumField(0)),
      ObjectInfo(NumField(100), NoField),
      ObjectInfo(NumField(100), StrField) }

ObjectData(items) == [t |-> "object", items |-> items]

\* JSON bodies that are not objects
NonObjectData ==
    {[t |-> k, items |-> EmptyMap] : k \in {"null", "list", "string", "number"}}

NetworkError == [kind |-> "network_error", data |-> NoData]

JsonList == [kind |-> "json", data |-> [t |-> "list", items |-> EmptyMap]]

Failures ==
    {[kind |-> k, data |-> NoData] : k \in {"network_error", "http_error", "invalid_json"}}

\* the JSON objects that give each of the coins one of the infos, or omit it
JsonResponses(coins, infos) ==
    {[kind |-> "json", data |-> ObjectData(items)] :
        items \in [coins -> infos \cup {Absent}]}

\* the JSON object that quotes every one of the coins at price p
FullQuote(coins, p) ==
    [kind |-> "json", data |-> ObjectData([c \in coins |-> Complete(p)])]

---------------------------------------------------------------------------
(* The session after earlier cycles: a store whose histories hold one entry *)
(* a minute, all at price 100, ending at the current minute.  Every such    *)
(* store is one the cycles produce: a coin that the upstream omitted in the *)
(* first cycles has the shorter history.                                    *)

Ramp(n) == [i \in 1..n |-> Entry(HistoryCap - n + i - 1, 100)]

StartClock == HistoryCap - 1

TypeOK ==
    /\ variant \in {"app", "streamlit"}
    /\ DOMAIN histories \subseteq CoinSet
    /\ cycles \in 0..MaxCycles
    /\ status \in {"start", "ok", "fetch_raised", "compute_raised"}

\* the session state before a run of main(), with the given store
InitWith(store) ==
    /\ variant \in {"app", "streamlit"}
    /\ histories = store
    /\ order = InCoinsOrder(DOMAIN store, 1)
    /\ clock = StartClock
    /\ cycles = 0
    /\ upstream = NoResponse
    /\ prices = EmptyMap
    /\ status = "start"
    /\ predictions = <<>>
    /\ top = <<>>
    /\ calls = <<>>

\* the stores in which each of the coins has one of the histories, or none
Stores(coins, hists) ==
    {[c \in {d \in coins : f[d] # <<>>} |-> f[c]] : f \in [coins -> hists \cup {<<>>}]}

---------------------------------------------------------------------------
(* Spec: the refresh cycles over the History Store.  The store starts      *)
(* empty or near its cap; each cycle fails, raises, or quotes some of the  *)
(* coins at 100.                                                           *)

StoreSteps == {0, 1}

StoreResponses ==
    {NetworkError, JsonList} \cup JsonResponses(Quoted, {Complete(100)})

Init ==
    \E store \in Stores(Quoted, {Ramp(HistoryCap - 1), Ramp(HistoryCap)}) :
        InitWith(store)

Next == \E resp \in StoreResponses, dt \in StoreSteps : Main(resp, dt)

Spec == Init /\ [][Next]_vars

---------------------------------------------------------------------------
(* SpecEngine: the refresh cycles with moving prices, for the projections. *)

EngineResponses ==
    {NetworkError, JsonList}
        \cup JsonResponses(Quoted, {Complete(p) : p \in Prices})

\* two samples 2 minutes apart, at prices 100 then 105
TwoSamples == <<Entry(StartClock - 2, 100), Entry(StartClock, 105)>>

InitEngine ==
    \E store \in Stores(Quoted, {TwoSamples, Ramp(HistoryCap)}) : InitWith(store)

NextEngine == \E resp \in EngineResponses, dt \in Steps : Main(resp, dt)

SpecEngine == InitEngine /\ [][NextEngine]_vars

---------------------------------------------------------------------------
(* SpecFetch: fetch_prices on every modelled shape of upstream answer.     *)

FetchResponses ==
    Failures \cup {[kind |-> "json", data |-> d] : d \in NonObjectData}
        \cup JsonResponses(Quoted, {Complete(p) : p \in Prices} \cup BrokenInfos)

InitFetch == InitWith(EmptyMap)

NextFetch == \E resp \in FetchResponses : Main(resp, 1)

SpecFetch == InitFetch /\ [][NextFetch]_vars

---------------------------------------------------------------------------
(* SpecRank: the ranking, over stores of up to six coins with two entries  *)
(* each (a rise from 100 to 105 or a fall from 105 to 100 in the last      *)
(* minute).                                                                *)

RankCoins == {COINS[i] : i \in 1..(TopN + 1)}

Rise == <<Entry(StartClock - 1, 100), Entry(StartClock, 105)>>

Fall == <<Entry(StartClock - 1, 105), Entry(StartClock, 100)>>

RankResponses == {NetworkError, FullQuote(RankCoins, 100)}

InitRank == \E store \in Stores(RankCoins, {Rise, Fall}) : InitWith(store)

NextRank == \E resp \in RankResponses : Main(resp, 1)

SpecRank == InitRank /\ [][NextRank]_vars

---------------------------------------------------------------------------
(* Claims *)

LastCall == calls[Len(calls)]

\* the coins whose history was full when the latest update_histories call
\* appended to it
AppendedWhenFull ==
    IF calls = <<>> THEN {}
    ELSE {c \in DOMAIN LastCall.quotes : Len(LastCall.before[c]) = HistoryCap}

\* C1: after any sequence of refresh cycles every asset's History holds at
\* most 60 samples, and its samples are in non-decreasing order of time.
C1_HistoryBounded ==
    \A c \in DOMAIN histories :
        /\ Len(histories[c]) <= 60
        /\ \A i, j \in 1..Len(histories[c]) :
              i < j => histories[c][i].time <= histories[c][j].time

\* a History at the cap after an append to a full History, holding both two
\* samples of the same minute and samples of different minutes
C1_Witness ==
    \E c \in AppendedWhenFull :
        /\ Len(histories[c]) = 60
        /\ histories[c][59].time = histories[c][60].time
        /\ histories[c][1].time < histories[c][60].time

\* C6: appending a sample to a History of 60 entries yields a History of 60
\* entries: the oldest entry is dropped, the others keep their order (the
\* oldest retained is the previously 2nd-oldest) and the newest is the
\* appended sample.
C6_TruncationFifo ==
    \A c \in AppendedWhenFull :
        /\ Len(histories[c]) = 60
        /\ histories[c][1] = LastCall.before[c][2]
        /\ \A i \in 1..59 : histories[c][i] = LastCall.before[c][i + 1]
        /\ histories[c][60].price = LastCall.quotes[c].price
        /\ histories[c][60].time >= LastCall.before[c][60].time

\* an append to a full History whose oldest and 2nd-oldest entries differ
C6_Witness ==
    \E c \in AppendedWhenFull :
        /\ LastCall.before[c][1] # LastCall.before[c][2]
        /\ histories[c][1] # LastCall.before[c][1]
        /\ status = "ok"

\* the latest two update_histories calls were given the same Quote mapping
SameMappingTwice == Len(calls) = 2 /\ calls[1].quotes = calls[2].quotes

\* C7 as stated: two update_histories calls with the same Quote mapping make
\* the History of every asset of the mapping 2 samples longer.
C7_LengthPlusTwo ==
    SameMappingTwice =>
        \A c \in DOMAIN calls[1].quotes :
            Len(histories[c]) = Len(calls[1].before[c]) + 2

\* C7, amended: two update_histories calls with the same Quote mapping append
\* two samples to the History of every asset of the mapping (no dedup): its
\* two newest entries carry the mapping's price, the entries before them are
\* the newest entries it had, and its length is min(old length + 2, 60).
C7_TwoAppendsUpToCap ==
    SameMappingTwice =>
        \A c \in DOMAIN calls[1].quotes :
            LET old == calls[1].before[c]
                new == histories[c]
                n   == Len(new)
            IN  /\ n = Min(Len(old) + 2, 60)
                /\ new[n].price = calls[1].quotes[c].price
                /\ new[n - 1].price = calls[1].quotes[c].price
                /\ \A i \in 1..(n - 2) : new[i] = old[Len(old) - (n - 2) + i]

\* the same mapping given twice, to a History below the cap and to a full one
C7_Witness ==
    /\ SameMappingTwice
    /\ \E c \in DOMAIN calls[1].quotes : Len(calls[1].before[c]) = 0
    /\ \E c \in DOMAIN calls[1].quotes : Len(calls[1].before[c]) = 60

\* C9: a refresh cycle changes only the Histories of the assets in that
\* cycle's quote mapping (none when the fetch failed), and a History, once
\* created, is never deleted or emptied.
C9_Frame ==
    [][\A c \in CoinSet :
          /\ c \notin DOMAIN prices' =>
                /\ (c \in DOMAIN histories') = (c \in DOMAIN histories)
                /\ HistoryOf(histories', c) = HistoryOf(histories, c)
          /\ c \in DOMAIN histories =>
                c \in DOMAIN histories' /\ histories'[c] # <<>>]_vars

\* a partial result: the cycle quoted one asset and omitted another that has
\* a History
C9_Witness ==
    /\ status = "ok"
    /\ prices # EmptyMap
    /\ DOMAIN histories \ DOMAIN prices # {}
    /\ cycles = 2

\* the assets of an upstream answer for which both a price and an update
\* timestamp are present (none when the answer is no JSON object)
QuotedAssets(resp) ==
    IF resp.kind = "json" /\ resp.data.t = "object"
    THEN {c \in DOMAIN resp.data.items :
            /\ resp.data.items[c].t = "object"
            /\ resp.data.items[c].usd.k # "none"
            /\ resp.data.items[c].ts.k # "none"}
    ELSE {}

\* C2: fetch_prices never raises: for every upstream outcome it returns a
\* mapping, which holds exactly the assets for which both a price and an
\* update timestamp were present (none on overall failure).
C2_NeverRaises ==
    status # "start" =>
        /\ status # "fetch_raised"
        /\ DOMAIN prices = QuotedAssets(upstream)

\* C3: compute_predictions depends on the histories alone: two runs over the
\* same unchanged histories return the same projections.
C3_PureInHistories ==
    [][(status = "ok" /\ status' = "ok" /\ histories' = histories)
          => predictions' = predictions]_vars

\* the time the variant takes the cutoffs from: the wall clock (app.py), the
\* time of the most recent sample (streamlit_app.py)
CutoffBase(c) ==
    IF variant = "app" THEN clock ELSE histories[c][Len(histories[c])].time

Windows == {1, 5, 15}

\* C4: for each window w the sample used as old_price is the one closest to,
\* but not after, the cutoff now - w: no other sample has a later time that
\* is still at or before the cutoff.
C4_ClosestToCutoff ==
    status = "ok" =>
        \A k \in 1..Len(predictions) : \A w \in Windows :
            LET h      == histories[predictions[k].coin]
                cutoff == CutoffBase(predictions[k].coin) - w
                i      == old_index(h, cutoff)
            IN  i # 0 =>
                    ~\E j \in 1..Len(h) :
                        h[j].time > h[i].time /\ h[j].time <= cutoff

\* the return over window w as the claim defines it: the cutoff is taken from
\* the most recent sample's time, the old sample is the first at or before
\* the cutoff, and the return is 0 when there is none or its price is not
\* positive
ClaimedReturn(h, w) ==
    LET cutoff == h[Len(h)].time - w
        older  == {i \in 1..Len(h) : h[i].time <= cutoff}
        first  == CHOOSE i \in older : \A j \in older : i <= j
    IN  IF older = {} THEN <<0, 1>>
        ELSE IF h[first].price <= 0 THEN <<0, 1>>
        ELSE Frac(h[Len(h)].price - h[first].price, h[first].price)

\* 100 * (0.5 * r1 * 30 + 0.3 * r5 * 6 + 0.2 * r15 * 2)
ClaimedGain(h) ==
    FracAddMul(FracAddMul(FracAddMul(<<0, 1>>, 1500, ClaimedReturn(h, 1)),
                          180, ClaimedReturn(h, 5)),
               40, ClaimedReturn(h, 15))

\* exactly two samples, 2 minutes apart, at prices 100 then 105
TwoSampleExample(h) ==
    /\ Len(h) = 2
    /\ h[2].time = h[1].time + 2
    /\ h[1].price = 100
    /\ h[2].price = 105

\* C5: projected_gain_pct is 100 * (0.5*r1*30 + 0.3*r5*6 + 0.2*r15*2) of the
\* window returns; two samples 2 minutes apart at prices 100 then 105 give
\* projected_gain_pct = 75.
C5_ProjectedGain ==
    status = "ok" =>
        \A k \in 1..Len(predictions) :
            LET h == histories[predictions[k].coin]
            IN  /\ predictions[k].projected_gain = ClaimedGain(h)
                /\ TwoSampleExample(h) => predictions[k].projected_gain = <<75, 1>>

\* C8: the result of compute_predictions holds exactly one Projection for
\* each asset whose History has at least 2 samples, and none for the others.
C8_OnePerAsset ==
    status \in {"ok", "compute_raised"} =>
        /\ \A c \in DOMAIN histories :
              Cardinality({k \in 1..Len(predictions) : predictions[k].coin = c})
                  = IF Len(histories[c]) >= 2 THEN 1 ELSE 0
        /\ \A k \in 1..Len(predictions) : predictions[k].coin \in DOMAIN histories

\* the assets whose History has at least 2 samples
Projectable == {c \in DOMAIN histories : Len(histories[c]) >= 2}

\* the rows are in the order of the variant's sort key: confidence
\* descending (app.py), projected gain then confidence descending
\* (streamlit_app.py)
InKeyOrder(rows) ==
    \A i, j \in 1..Len(rows) :
        i < j =>
            IF variant = "app"
            THEN ~ConfLess(rows[i].confidence, rows[j].confidence)
            ELSE \/ FracLess(rows[j].projected_gain, rows[i].projected_gain)
                 \/ /\ rows[j].projected_gain = rows[i].projected_gain
                    /\ ~ConfLess(rows[i].confidence, rows[j].confidence)

\* C10: in both variants, whenever at least one asset has a projection, the
\* rows displayed number min(5, assets with at least 2 samples), whatever
\* number of projections clears the 5% threshold; they are distinct rows of
\* the result, in the order of the variant's sort key, and no row left out
\* sorts before a displayed one.
C10_RowsDisplayed ==
    (status = "ok" /\ predictions # <<>>) =>
        /\ Len(top) = Min(5, Cardinality(Projectable))
        /\ InKeyOrder(top)
        /\ \A i \in 1..Len(top) : \E k \in 1..Len(predictions) : top[i] = predictions[k]
        /\ \A i, j \in 1..Len(top) : i # j => top[i].coin # top[j].coin
        /\ \A k \in 1..Len(predictions) :
              (\A i \in 1..Len(top) : top[i] # predictions[k])
                  => InKeyOrder(Append(top, predictions[k]))

\* three assets, all projecting below 5% and not all the same, all displayed
\* by the variant that filters on the threshold
C10_Witness ==
    /\ variant = "streamlit"
    /\ status = "ok"
    /\ Cardinality(Projectable) = 3
    /\ Len(top) = 3
    /\ \A i \in 1..Len(top) : FracLess(top[i].projected_gain, <<5, 1>>)
    /\ top[1].projected_gain # top[3].projected_gain

===========================================================================
